---- MODULE Spec2Model ----
(***************************************************************************)
(* Directory tree simulator (src/src/lib.rs): DTree, a directory node     *)
(* holding an ordered Vec of named entries, and OsState, a DTree plus a   *)
(* current working directory.                                             *)
(*                                                                         *)
(* A string is modelled as the sequence of its characters, so that        *)
(* name.contains("/") and format!("/{}{}", ..) are computed on the        *)
(* characters.  A DTree is the sequence of its entries (children), each   *)
(* entry a record [name, subdir].  The tree under test is the pub field   *)
(* dtree of an OsState (lib.rs:46): both the DTree API and the OsState    *)
(* API are called on it.                                                   *)
(***************************************************************************)
EXTENDS Integers, Sequences, FiniteSets, TLC

VARIABLES
    dtree,   \* OsState.dtree: the DTree (lib.rs:46)
    cwd,     \* OsState.cwd: Vec<&str> (lib.rs:47)
    call,    \* history: the last call made, its arguments and what it returned
    pre,     \* history: dtree as it was when the last call was made
    scen     \* history: how many calls of the chdir doc test (lib.rs:213-220)
             \* the whole call history consists of so far; -1 once it departs

vars == <<dtree, cwd, call, pre, scen>>

----------------------------------------------------------------------------
(* Bounds of the model *)

\* most directory entries in the whole tree
MaxNodes == 3
\* most components of a path argument
MaxPathLen == 2

----------------------------------------------------------------------------
(* Inputs *)

ValidNames == { <<"a">>, <<"b">>, <<"c">> }
SlashNames == { <<"/">>, <<"a", "/", "b">> }
Names == ValidNames \cup SlashNames

\* the names the components of a path argument are drawn from
PathNames == { <<"a">>, <<"b">> }

RECURSIVE PathsUpTo(_)
PathsUpTo(n) ==
    IF n = 0 THEN { <<>> }
    ELSE PathsUpTo(n - 1) \cup
         { Append(p, c) : p \in { q \in PathsUpTo(n - 1) : Len(q) = n - 1 },
                          c \in PathNames }

PathArgs == PathsUpTo(MaxPathLen)

----------------------------------------------------------------------------
(* Strings *)

\* str::contains("/")
ContainsSlash(name) == \E i \in 1..Len(name) : name[i] = "/"

\* format!("{}{}", name, rest): the separator left out
FormatNoSeparator(name, rest) == name \o rest

\* format!("/{}{}", name, rest)
Format(name, rest) == <<"/">> \o name \o rest

----------------------------------------------------------------------------
(* DEnt and DTree *)

\* DTree::new
DTreeNew == <<>>

\* DEnt::new
DEntNew(name) == [name |-> name, subdir |-> DTreeNew]

\* the loop of DTree::mkdir that sets found
Found(t, name) == \E i \in 1..Len(t) : t[i].name = name

\* DTree::mkdir without the SlashInName check
MkdirNoSlashCheck(t, name) ==
    IF Found(t, name)
    THEN [res |-> "DirExists", tree |-> t]
    ELSE [res |-> "Ok", tree |-> Append(t, DEntNew(name))]

\* DTree::mkdir without the DirExists check
MkdirNoExistsCheck(t, name) ==
    IF ContainsSlash(name)
    THEN [res |-> "SlashInName", tree |-> t]
    ELSE [res |-> "Ok", tree |-> Append(t, DEntNew(name))]

\* DTree::mkdir pushing the new entry at the front of children
MkdirAtFront(t, name) ==
    IF ContainsSlash(name)
    THEN [res |-> "SlashInName", tree |-> t]
    ELSE IF Found(t, name)
         THEN [res |-> "DirExists", tree |-> t]
         ELSE [res |-> "Ok", tree |-> <<DEntNew(name)>> \o t]

\* DTree::mkdir: the result and the node afterwards
Mkdir(t, name) ==
    IF ContainsSlash(name)
    THEN [res |-> "SlashInName", tree |-> t]
    ELSE IF Found(t, name)
         THEN [res |-> "DirExists", tree |-> t]
         ELSE [res |-> "Ok", tree |-> Append(t, DEntNew(name))]

\* dt.children[i].subdir ... : the node reached by a chain of indices
RECURSIVE NodeAt(_, _)
NodeAt(t, addr) ==
    IF addr = <<>> THEN t ELSE NodeAt(t[Head(addr)].subdir, Tail(addr))

\* the index chains of every node of t, the node t itself (<<>>) included
RECURSIVE Addrs(_)
Addrs(t) ==
    { <<>> } \cup
    UNION { { <<i>> \o a : a \in Addrs(t[i].subdir) } : i \in 1..Len(t) }

\* number of entries in the whole tree
NodeCount(t) == Cardinality(Addrs(t)) - 1

\* dt.children[i].subdir. ... .mkdir(name): mkdir on the node at addr
RECURSIVE MkdirAt(_, _, _)
MkdirAt(t, addr, name) ==
    IF addr = <<>> THEN Mkdir(t, name)
    ELSE LET r == MkdirAt(t[Head(addr)].subdir, Tail(addr), name)
         IN  [res |-> r.res, tree |-> [t EXCEPT ![Head(addr)].subdir = r.tree]]

----------------------------------------------------------------------------
(* DTree::paths and DTree::path_helper *)

\* DTree::path_helper: cwd is overwritten for each child in turn (lib.rs:190-192)
RECURSIVE PathHelper(_), PathHelperLoop(_, _, _)

\* the loop of path_helper keeping its first assignment to cwd
PathHelperKeepFirst(t, i, acc) ==
    IF i > Len(t) THEN acc
    ELSE Format(t[i].name, PathHelper(t[i].subdir))

PathHelperLoop(t, i, acc) ==
    IF i > Len(t) THEN acc
    ELSE PathHelperLoop(t, i + 1, Format(t[i].name, PathHelper(t[i].subdir)))

PathHelper(t) ==
    IF t = <<>> THEN <<"/">> ELSE PathHelperLoop(t, 1, <<>>)

\* DTree::paths without the push of "/" for a node without children
PathsNoEmptyCase(t) ==
    [i \in 1..Len(t) |-> Format(t[i].name, PathHelper(t[i].subdir))]

\* DTree::paths: "/" for a node without children, then one push per child
Paths(t) ==
    (IF t = <<>> THEN << <<"/">> >> ELSE <<>>)
    \o [i \in 1..Len(t) |-> Format(t[i].name, PathHelper(t[i].subdir))]

----------------------------------------------------------------------------
(* DTree::with_subdir, with the visitor |dt| dt.paths() *)

\* the inner loop of with_subdir: the first child named p, 0 when there is none
RECURSIVE WithSubdirInner(_, _, _)
WithSubdirInner(t, p, j) ==
    IF j > Len(t) THEN 0
    ELSE IF t[j].name = p THEN j
         ELSE WithSubdirInner(t, p, j + 1)

\* the outer loop of with_subdir, over the components of path
RECURSIVE WithSubdirOuter(_, _, _)
WithSubdirOuter(t, path, i) ==
    IF i > Len(path)
    THEN [res |-> "InvalidChild", visited |-> FALSE, ret |-> <<>>]
    ELSE LET j == WithSubdirInner(t, path[i], 1)
         IN  IF j # 0
             THEN [res |-> "Ok", visited |-> TRUE, ret |-> Paths(t[j].subdir)]
             ELSE WithSubdirOuter(t, path, i + 1)

WithSubdir(t, path) == WithSubdirOuter(t, path, 1)

----------------------------------------------------------------------------
(* DTree::with_subdir_mut, with the visitor |d| d.mkdir(name) *)

\* DTree::find_child: the index of the child named p; 0 stands for panic!
RECURSIVE FindChildFrom(_, _, _)
FindChildFrom(t, p, j) ==
    IF j > Len(t) THEN 0
    ELSE IF p = t[j].name THEN j
         ELSE FindChildFrom(t, p, j + 1)

FindChild(t, p) == FindChildFrom(t, p, 1)

\* with_subdir_mut: the first turn of the loop returns Ok(f(self))
WithSubdirMut(t, path, name) ==
    IF path = <<>>
    THEN [res |-> "InvalidChild", visited |-> FALSE, inner |-> "", tree |-> t]
    ELSE IF FindChild(t, path[1]) = 0
         THEN [res |-> "Panic", visited |-> FALSE, inner |-> "", tree |-> t]
         ELSE LET r == Mkdir(t, name)
              IN  [res |-> "Ok", visited |-> TRUE, inner |-> r.res,
                   tree |-> r.tree]

----------------------------------------------------------------------------
(* OsState *)

\* the inner loop of OsState::chdir: x is overwritten by each child named p
RECURSIVE ChdirInner(_, _, _, _)
ChdirInner(t, p, j, x) ==
    IF j > Len(t) THEN x
    ELSE ChdirInner(t, p, j + 1, IF p = t[j].name THEN t[j].subdir ELSE x)

\* the outer loop of OsState::chdir, over the components of path
RECURSIVE ChdirOuter(_, _, _, _)
ChdirOuter(t, path, i, x) ==
    IF i > Len(path) THEN x
    ELSE ChdirOuter(t, path, i + 1, ChdirInner(t, path[i], 1, x))

\* OsState::chdir: self.dtree = x.clone(); Ok(())
Chdir(t, path) == [res |-> "Ok", tree |-> ChdirOuter(t, path, 1, DTreeNew)]

\* OsState::mkdir without the DirExists check
OsMkdirNoExistsCheck(t, name) ==
    IF ContainsSlash(name)
    THEN [res |-> "SlashInName", tree |-> t]
    ELSE [res |-> "Ok", tree |-> Append(t, DEntNew(name))]

\* OsState::mkdir, on self.dtree
OsMkdir(t, name) ==
    IF ContainsSlash(name)
    THEN [res |-> "SlashInName", tree |-> t]
    ELSE IF \E i \in 1..Len(t) : t[i].name = name
         THEN [res |-> "DirExists", tree |-> t]
         ELSE [res |-> "Ok", tree |-> Append(t, DEntNew(name))]

\* OsState::paths: Ok only when retpaths is empty
OsPaths(t) ==
    LET retpaths ==
            (IF t = <<>> THEN << <<"/">> >> ELSE <<>>)
            \o [i \in 1..Len(t) |-> Format(t[i].name, PathHelper(t[i].subdir))]
    IN  IF retpaths = <<>>
        THEN [res |-> "Ok", ret |-> retpaths]
        ELSE [res |-> "InvalidChild", ret |-> <<>>]

----------------------------------------------------------------------------
(* History *)

NoCall ==
    [op |-> "new", name |-> <<>>, path |-> <<>>, addr |-> <<>>,
     res |-> "Ok", inner |-> "", visited |-> FALSE, ret |-> <<>>]

\* the calls of the chdir doc test (lib.rs:213-220), in order
Scenario ==
    << [op |-> "os_mkdir", name |-> <<"a">>, path |-> <<>>],
       [op |-> "os_chdir", name |-> <<>>,    path |-> << <<"a">> >>],
       [op |-> "os_mkdir", name |-> <<"b">>, path |-> <<>>],
       [op |-> "os_chdir", name |-> <<>>,    path |-> << <<"b">> >>],
       [op |-> "os_mkdir", name |-> <<"c">>, path |-> <<>>],
       [op |-> "os_chdir", name |-> <<>>,    path |-> <<>>],
       [op |-> "os_paths", name |-> <<>>,    path |-> <<>>] >>

ScenStep(op, name, path) ==
    IF scen >= 0 /\ scen < Len(Scenario)
       /\ Scenario[scen + 1] = [op |-> op, name |-> name, path |-> path]
    THEN scen + 1
    ELSE -1

\* a panic unwinds out of the caller: no call follows it
Running == call.res # "Panic"

----------------------------------------------------------------------------
(* The state machine *)

\* OsState::new
Init ==
    /\ dtree = DTreeNew
    /\ cwd = <<>>
    /\ call = NoCall
    /\ pre = DTreeNew
    /\ scen = 0

\* dt.mkdir(name) on the root (addr = <<>>) or on a node below it
DTreeMkdir ==
    \E addr \in Addrs(dtree), name \in Names :
        LET r == MkdirAt(dtree, addr, name)
        IN  /\ Running
            /\ NodeCount(r.tree) <= MaxNodes
            /\ dtree' = r.tree
            /\ pre' = dtree
            /\ call' = [NoCall EXCEPT !.op = "mkdir", !.name = name,
                                      !.addr = addr, !.res = r.res]
            /\ scen' = -1
            /\ UNCHANGED cwd

\* dt.with_subdir(path, |dt| dt.paths())
DTreeWithSubdir ==
    \E path \in PathArgs :
        LET r == WithSubdir(dtree, path)
        IN  /\ Running
            /\ pre' = dtree
            /\ call' = [NoCall EXCEPT !.op = "with_subdir", !.path = path,
                                      !.res = r.res, !.visited = r.visited,
                                      !.ret = r.ret]
            /\ scen' = -1
            /\ UNCHANGED <<dtree, cwd>>

\* dt.with_subdir_mut(path, |d| d.mkdir(name))
DTreeWithSubdirMut ==
    \E path \in PathArgs, name \in Names :
        LET r == WithSubdirMut(dtree, path, name)
        IN  /\ Running
            /\ NodeCount(r.tree) <= MaxNodes
            /\ dtree' = r.tree
            /\ pre' = dtree
            /\ call' = [NoCall EXCEPT !.op = "with_subdir_mut", !.path = path,
                                      !.name = name, !.res = r.res,
                                      !.inner = r.inner,
                                      !.visited = r.visited]
            /\ scen' = -1
            /\ UNCHANGED cwd

\* dt.paths()
DTreePaths ==
    /\ Running
    /\ pre' = dtree
    /\ call' = [NoCall EXCEPT !.op = "paths", !.ret = Paths(dtree)]
    /\ scen' = -1
    /\ UNCHANGED <<dtree, cwd>>

\* s.chdir(path)
OsChdir ==
    \E path \in PathArgs :
        LET r == Chdir(dtree, path)
        IN  /\ Running
            /\ dtree' = r.tree
            /\ pre' = dtree
            /\ call' = [NoCall EXCEPT !.op = "os_chdir", !.path = path,
                                      !.res = r.res]
            /\ scen' = ScenStep("os_chdir", <<>>, path)
            /\ UNCHANGED cwd

\* s.mkdir(name)
OsStateMkdir ==
    \E name \in Names :
        LET r == OsMkdir(dtree, name)
        IN  /\ Running
            /\ NodeCount(r.tree) <= MaxNodes
            /\ dtree' = r.tree
            /\ pre' = dtree
            /\ call' = [NoCall EXCEPT !.op = "os_mkdir", !.name = name,
                                      !.res = r.res]
            /\ scen' = ScenStep("os_mkdir", name, <<>>)
            /\ UNCHANGED cwd

\* s.paths()
OsStatePaths ==
    LET r == OsPaths(dtree)
    IN  /\ Running
        /\ pre' = dtree
        /\ call' = [NoCall EXCEPT !.op = "os_paths", !.res = r.res,
                                  !.ret = r.ret]
        /\ scen' = ScenStep("os_paths", <<>>, <<>>)
        /\ UNCHANGED <<dtree, cwd>>

Next ==
    \/ DTreeMkdir
    \/ DTreeWithSubdir
    \/ DTreeWithSubdirMut
    \/ DTreePaths
    \/ OsChdir
    \/ OsStateMkdir
    \/ OsStatePaths

Spec == Init /\ [][Next]_vars

----------------------------------------------------------------------------
(* Vocabulary of the properties *)

Range(s) == { s[i] : i \in 1..Len(s) }

HasSlash(name) == "/" \in Range(name)

HasChild(t, name) == name \in { t[i].name : i \in 1..Len(t) }

\* the index of the child of t named name (0 when there is none)
ChildIndex(t, name) ==
    IF HasChild(t, name)
    THEN CHOOSE i \in 1..Len(t) : t[i].name = name
    ELSE 0

\* "/" + c1 + "/" + ... + ck + "/" for every chain c1..ck from t to a leaf
RECURSIVE LeafPaths(_)
LeafPaths(t) ==
    IF t = <<>> THEN { <<"/">> }
    ELSE UNION { { <<"/">> \o t[i].name \o s : s \in LeafPaths(t[i].subdir) }
                 : i \in 1..Len(t) }

\* the chains of names of every directory below t
RECURSIVE Dirs(_)
Dirs(t) ==
    UNION { { <<t[i].name>> \o d : d \in { <<>> } \cup Dirs(t[i].subdir) }
            : i \in 1..Len(t) }

\* every component of path names a directory at its level, starting at t
RECURSIVE Resolves(_, _)
Resolves(t, path) ==
    \/ path = <<>>
    \/ /\ HasChild(t, Head(path))
       /\ Resolves(t[ChildIndex(t, Head(path))].subdir, Tail(path))

\* root -> a (a leaf)
TreeA == << [name |-> <<"a">>, subdir |-> <<>>] >>

\* root -> a -> b
TreeAB ==
    << [name |-> <<"a">>,
        subdir |-> << [name |-> <<"b">>, subdir |-> <<>>] >>] >>

\* root -> a -> {b, c}
TreeABC ==
    << [name |-> <<"a">>,
        subdir |-> << [name |-> <<"b">>, subdir |-> <<>>],
                      [name |-> <<"c">>, subdir |-> <<>>] >>] >>

----------------------------------------------------------------------------
(* C1: paths() returns exactly one path per leaf: the set of strings a    *)
(* paths() call returns is the set of "/"-joined chains from the root to  *)
(* each leaf; for root -> a -> {b, c} it is {"/a/b/", "/a/c/"}.           *)
C1_PathsOnePerLeaf ==
    call.op = "paths" =>
        /\ Range(call.ret) = LeafPaths(dtree)
        /\ dtree = TreeABC =>
               Range(call.ret) = { <<"/", "a", "/", "b", "/">>,
                                   <<"/", "a", "/", "c", "/">> }

(* C2: with_subdir_mut(path, f) runs f on the directory path names: with  *)
(* a one-component path naming a child, the mkdir of the visitor lands in *)
(* that child; from root -> a, with_subdir_mut(["a"], mkdir "b") leaves   *)
(* root -> a -> b, a root with one child, and paths() = ["/a/b/"].        *)
C2_WithSubdirMutVisitsDescendant ==
    (/\ call.op = "with_subdir_mut"
     /\ Len(call.path) = 1
     /\ HasChild(pre, call.path[1])) =>
        LET j == ChildIndex(pre, call.path[1])
        IN  /\ call.res = "Ok"
            /\ dtree = [pre EXCEPT ![j].subdir = Mkdir(pre[j].subdir, call.name).tree]
            /\ (pre = TreeA /\ call.path = << <<"a">> >> /\ call.name = <<"b">>) =>
                   /\ dtree = TreeAB
                   /\ Len(dtree) = 1
                   /\ Paths(dtree) = << <<"/", "a", "/", "b", "/">> >>

(* C3: the session of the chdir doc test: from an empty OsState, every    *)
(* call of mkdir a, chdir [a], mkdir b, chdir [b], mkdir c, chdir [],     *)
(* paths succeeds, and the paths call returns ["/a/b/c/"].                *)
C3_SessionNesting ==
    /\ scen \in 1..Len(Scenario) => call.res = "Ok"
    /\ scen = Len(Scenario) =>
           call.ret = << <<"/", "a", "/", "b", "/", "c", "/">> >>

(* C4: a chdir whose non-empty path has a component that names no         *)
(* directory at its level returns InvalidChild and leaves the session as  *)
(* it was.                                                                 *)
C4_FailedChdirNoOp ==
    (/\ call.op = "os_chdir"
     /\ call.path # <<>>
     /\ ~Resolves(pre, call.path)) =>
        /\ call.res = "InvalidChild"
        /\ dtree = pre
        /\ cwd = <<>>

(* C5: chdir([]) returns Ok, leaves cwd at the root, and every directory  *)
(* that existed before the call is still in the hierarchy afterwards.     *)
C5_ChdirRootKeepsAll ==
    (call.op = "os_chdir" /\ call.path = <<>>) =>
        /\ call.res = "Ok"
        /\ cwd = <<>>
        /\ \E addr \in Addrs(dtree) : Dirs(pre) \subseteq Dirs(NodeAt(dtree, addr))

(* C6: no directory anywhere in the tree has two children of one name.    *)
C6_SiblingNamesUnique ==
    \A addr \in Addrs(dtree) :
        LET n == NodeAt(dtree, addr)
        IN  \A i, j \in 1..Len(n) : n[i].name = n[j].name => i = j

\* a mkdir was refused with DirExists in a tree that uses one name at two levels
C6_Witness ==
    /\ call.op = "os_mkdir"
    /\ call.res = "DirExists"
    /\ \E addr \in Addrs(dtree) :
           /\ addr # <<>>
           /\ Len(NodeAt(dtree, addr)) >= 1
           /\ NodeAt(dtree, addr)[1].name = dtree[Head(addr)].name

(* C7: mkdir(name), name without "/" and not yet a child of the node,     *)
(* succeeds and adds exactly one child; mkdir(name) on the node right     *)
(* after that returns DirExists and changes nothing, as does any mkdir of *)
(* a name the node already holds.                                          *)
C7_MkdirThenDirExists ==
    (call.op = "mkdir" /\ ~HasSlash(call.name)) =>
        LET before == NodeAt(pre, call.addr)
            after  == NodeAt(dtree, call.addr)
            again  == Mkdir(after, call.name)
        IN  IF HasChild(before, call.name)
            THEN call.res = "DirExists" /\ dtree = pre
            ELSE /\ call.res = "Ok"
                 /\ Len(after) = Len(before) + 1
                 /\ again.res = "DirExists"
                 /\ again.tree = after

\* a mkdir on a node below the root succeeded and gave it its second child
C7_Witness ==
    /\ call.op = "mkdir"
    /\ call.res = "Ok"
    /\ call.addr # <<>>
    /\ Len(NodeAt(pre, call.addr)) = 1
    /\ Len(NodeAt(dtree, call.addr)) = 2

(* C8: mkdir of a name containing "/" (DTree::mkdir, a mkdir made by a    *)
(* visitor, OsState::mkdir) returns SlashInName and changes nothing; no   *)
(* name stored in the tree contains "/".                                  *)
C8_SlashInNameRejected ==
    /\ (call.op \in {"mkdir", "os_mkdir"} /\ HasSlash(call.name)) =>
           call.res = "SlashInName" /\ dtree = pre
    /\ (call.op = "with_subdir_mut" /\ call.visited /\ HasSlash(call.name)) =>
           call.inner = "SlashInName" /\ dtree = pre
    /\ \A addr \in Addrs(dtree) :
           \A i \in 1..Len(NodeAt(dtree, addr)) :
               ~HasSlash(NodeAt(dtree, addr)[i].name)

\* mkdir("a/b") was refused on a node below the root of a tree that has entries
C8_Witness ==
    /\ call.op = "mkdir"
    /\ call.name = <<"a", "/", "b">>
    /\ call.addr # <<>>
    /\ call.res = "SlashInName"

(* C9: with_subdir(path, f) with an empty path, or a path whose first     *)
(* component names no direct child, returns InvalidChild, does not call   *)
(* f, and leaves the tree as it was.                                       *)
C9_WithSubdirBadPath ==
    (/\ call.op = "with_subdir"
     /\ (call.path = <<>> \/ ~HasChild(pre, call.path[1]))) =>
        /\ call.res = "InvalidChild"
        /\ ~call.visited
        /\ dtree = pre

(* C10: with_subdir_mut(path, f) with an empty path, or a path whose      *)
(* first component names no direct child, returns InvalidChild as a value *)
(* (it does not panic), does not call f, and leaves the tree as it was.   *)
C10_WithSubdirMutBadPath ==
    (/\ call.op = "with_subdir_mut"
     /\ (call.path = <<>> \/ ~HasChild(pre, call.path[1]))) =>
        /\ call.res = "InvalidChild"
        /\ ~call.visited
        /\ dtree = pre

----------------------------------------------------------------------------
(* Vocabulary of the properties, continued *)

\* the directory reached from t by following every component of path in order
RECURSIVE Descend(_, _)
Descend(t, path) ==
    IF path = <<>> THEN t
    ELSE Descend(t[ChildIndex(t, Head(path))].subdir, Tail(path))

\* t with the node at the index chain addr replaced by n
RECURSIVE SetNodeAt(_, _, _)
SetNodeAt(t, addr, n) ==
    IF addr = <<>> THEN n
    ELSE [t EXCEPT ![Head(addr)].subdir = SetNodeAt(@, Tail(addr), n)]

\* root -> a -> b -> c
TreeABCChain ==
    << [name |-> <<"a">>,
        subdir |-> << [name |-> <<"b">>,
                       subdir |-> << [name |-> <<"c">>, subdir |-> <<>>] >>] >>] >>

(* C11: OsState::paths returns Ok(v), v being (up to order) what          *)
(* DTree::paths returns for the directory the session works in; it fails  *)
(* only when the working directory is invalid.                            *)
C11_OsPathsAsDTreePaths ==
    call.op = "os_paths" =>
        /\ call.res = "Ok"
        /\ Range(call.ret) = Range(Paths(dtree))

(* C12: a successful chdir(path), path not empty, moves the working       *)
(* directory to the directory reached by following every component of     *)
(* path in order: the tree that paths() and mkdir then work on is that    *)
(* directory.                                                              *)
C12_ChdirFollowsEveryComponent ==
    (/\ call.op = "os_chdir"
     /\ call.path # <<>>
     /\ Resolves(pre, call.path)) =>
        /\ call.res = "Ok"
        /\ dtree = Descend(pre, call.path)

(* C13: with_subdir(path, f) on a path whose every component resolves     *)
(* returns Ok(f(d)), d being the directory reached by following each      *)
(* component in order; for root -> a -> b -> c, with_subdir(["a","b"],    *)
(* paths) returns Ok(["/c/"]).                                            *)
C13_WithSubdirFollowsEveryComponent ==
    (/\ call.op = "with_subdir"
     /\ call.path # <<>>
     /\ Resolves(pre, call.path)) =>
        /\ call.res = "Ok"
        /\ call.ret = Paths(Descend(pre, call.path))
        /\ (pre = TreeABCChain /\ call.path = << <<"a">>, <<"b">> >>) =>
               call.ret = << <<"/", "c", "/">> >>

(* C14: paths() on a tree without children returns exactly ["/"], and so  *)
(* does the visitor paths run by with_subdir on a child that is a leaf.   *)
C14_EmptyTreePaths ==
    /\ (call.op = "paths" /\ dtree = <<>>) => call.ret = << <<"/">> >>
    /\ (/\ call.op = "with_subdir"
        /\ Len(call.path) = 1
        /\ HasChild(pre, call.path[1])
        /\ pre[ChildIndex(pre, call.path[1])].subdir = <<>>) =>
           call.res = "Ok" /\ call.ret = << <<"/">> >>

\* with_subdir(["a"], paths) was called on a tree whose child a is a leaf
C14_Witness ==
    /\ call.op = "with_subdir"
    /\ call.path = << <<"a">> >>
    /\ HasChild(pre, <<"a">>)
    /\ pre[ChildIndex(pre, <<"a">>)].subdir = <<>>
    /\ call.visited

(* C15: directories are never removed: every directory (its chain of      *)
(* names from the root) that exists before a call exists after it.        *)
C15_DirectoriesNeverRemoved ==
    Dirs(pre) \subseteq Dirs(dtree)

(* C16: a successful mkdir(name) on a node leaves the node with its       *)
(* former children, in order and with their subtrees, followed by one new *)
(* entry name with an empty subtree; nothing else in the tree changes.    *)
C16_MkdirFrame ==
    /\ (call.op = "mkdir" /\ call.res = "Ok") =>
           LET new == [name |-> call.name, subdir |-> <<>>]
           IN  /\ NodeAt(dtree, call.addr) = Append(NodeAt(pre, call.addr), new)
               /\ dtree = SetNodeAt(pre, call.addr,
                                    Append(NodeAt(pre, call.addr), new))
    /\ (call.op = "with_subdir_mut" /\ call.inner = "Ok") =>
           dtree = Append(pre, [name |-> call.name, subdir |-> <<>>])

\* a mkdir succeeded on a node that had a child with a subtree of its own
C16_Witness ==
    /\ call.op = "mkdir"
    /\ call.res = "Ok"
    /\ \E i \in 1..Len(NodeAt(pre, call.addr)) :
           NodeAt(pre, call.addr)[i].subdir # <<>>

\* "/" + c1 + "/" + c2 + ... for a chain of names c1, c2, ...
RECURSIVE JoinChain(_)
JoinChain(chain) ==
    IF chain = <<>> THEN <<>>
    ELSE <<"/">> \o Head(chain) \o JoinChain(Tail(chain))

\* the string path_helper is meant to give: the last child at every level
RECURSIVE LastChildPath(_)
LastChildPath(t) ==
    IF t = <<>> THEN <<"/">>
    ELSE <<"/">> \o t[Len(t)].name \o LastChildPath(t[Len(t)].subdir)

(* C17: paths() never fails and never returns an empty sequence; every    *)
(* string it returns begins and ends with "/" and is "/" + name for each  *)
(* directory of a chain that exists in the tree, then a final "/".        *)
C17_PathStringsWellFormed ==
    call.op = "paths" =>
        /\ call.res = "Ok"
        /\ call.ret # <<>>
        /\ \A s \in Range(call.ret) :
               /\ Len(s) >= 1
               /\ s[1] = "/"
               /\ s[Len(s)] = "/"
               /\ \E chain \in { <<>> } \cup Dirs(dtree) :
                      s = JoinChain(chain) \o <<"/">>

\* paths() was called on a tree with a directory two levels below the root
C17_Witness ==
    /\ call.op = "paths"
    /\ \E addr \in Addrs(dtree) : Len(addr) = 2
    /\ \E s \in Range(call.ret) : Len(s) = 5

====
